---------------------------- MODULE Spec2Model ----------------------------
(***************************************************************************)
(* Model of src/app/page.tsx (RugbyPitchApp): the click handler that turns *)
(* a screen coordinate into a pitch point, picks the nearer goal and       *)
(* computes the angle subtended by its posts, together with the single     *)
(* state cell `calculation` that holds the last result.                    *)
(*                                                                         *)
(* Arithmetic is exact.  Lengths are integers: pitch coordinates count     *)
(* units of 1/Unit metre, screen coordinates count units of 1/SubPx pixel. *)
(* Math.sqrt(n) is carried by its radicand, a quotient by its numerator    *)
(* and the radicands of its denominator, and Math.acos (strictly decreasing*)
(* from [-1, 1] onto [0, pi]) followed by the scaling to degrees is        *)
(* carried by its argument.  Order and equality of such values are decided *)
(* by exact multi-limb integer arithmetic.  Floating-point rounding is not *)
(* modelled.                                                               *)
(***************************************************************************)
EXTENDS Integers, Sequences, FiniteSets, TLC

\* ------------------------------------------------------------ constants
PITCH_LENGTH == 100
PITCH_WIDTH == 70
\* 5.6 m, written in tenths of a metre
GOAL_POST_WIDTH == 56
IN_GOAL_DEPTH == 10
SCALE == 4

\* model length units per metre: one unit is a fifth of a pixel of 1/SCALE m
Unit == 5 * SCALE
\* screen units per pixel
SubPx == Unit \div SCALE

\* the program's lengths in model units
PitchLengthU == PITCH_LENGTH * Unit
PitchWidthU == PITCH_WIDTH * Unit
GoalPostWidthU == (GOAL_POST_WIDTH * Unit) \div 10
InGoalDepthU == IN_GOAL_DEPTH * Unit

svgWidth == PITCH_WIDTH * SCALE
svgHeight == (PITCH_LENGTH + 2 * IN_GOAL_DEPTH) * SCALE

\* --------------------------------------------------------------- bounds
\* clicks lie MaxI steps of half a goal width left and right of the centre
MaxI == 2
\* on MaxJ + 1 lines a quarter of the pitch apart, from the y = 0 goal line
MaxJ == 4
\* and on MaxK pixel rows on either side of the y = 0 goal line
MaxK == 1
\* the bounding rect's left and top are 0..MaxOff fifths of a pixel
MaxOff == 1
\* handled clicks are counted up to MaxClicks
MaxClicks == 2

\* ------------------------------------------------- exact integer helpers
Abs(n) == IF n < 0 THEN -n ELSE n
Sign(n) == IF n < 0 THEN -1 ELSE IF n > 0 THEN 1 ELSE 0

\* naturals of any size: little-endian sequences of limbs below Base
Base == 100 * 100

RECURSIVE ToBig(_)
ToBig(n) == IF n = 0 THEN <<>> ELSE <<n % Base>> \o ToBig(n \div Base)

RECURSIVE BigAdd(_, _, _)
BigAdd(A, B, carry) ==
    IF A = <<>> /\ B = <<>>
    THEN ToBig(carry)
    ELSE LET a == IF A = <<>> THEN 0 ELSE Head(A)
             b == IF B = <<>> THEN 0 ELSE Head(B)
             s == a + b + carry
         IN <<s % Base>> \o BigAdd(IF A = <<>> THEN <<>> ELSE Tail(A),
                                   IF B = <<>> THEN <<>> ELSE Tail(B),
                                   s \div Base)

RECURSIVE BigMulLimb(_, _, _)
BigMulLimb(A, m, carry) ==
    IF A = <<>>
    THEN ToBig(carry)
    ELSE LET p == Head(A) * m + carry
         IN <<p % Base>> \o BigMulLimb(Tail(A), m, p \div Base)

RECURSIVE BigMul(_, _)
BigMul(A, B) ==
    IF B = <<>>
    THEN <<>>
    ELSE BigAdd(BigMulLimb(A, Head(B), 0), <<0>> \o BigMul(A, Tail(B)), 0)

\* -1, 0, 1 as A is below, equal to, above B (missing limbs count as 0)
RECURSIVE BigCmp(_, _)
BigCmp(A, B) ==
    IF A = <<>> /\ B = <<>>
    THEN 0
    ELSE LET a == IF A = <<>> THEN 0 ELSE Head(A)
             b == IF B = <<>> THEN 0 ELSE Head(B)
             hi == BigCmp(IF A = <<>> THEN <<>> ELSE Tail(A),
                          IF B = <<>> THEN <<>> ELSE Tail(B))
         IN IF hi # 0 THEN hi ELSE Sign(a - b)

\* the product of four naturals
Prod4(a, b, c, d) == BigMul(BigMul(ToBig(a), ToBig(b)), BigMul(ToBig(c), ToBig(d)))

\* ------------------------------------------------------------- numbers
\* Math.sqrt(n), exact
MathSqrt(n) == [radicand |-> n]
SqrtLess(a, b) == a.radicand < b.radicand
\* Math.min on two square roots
MathMin(a, b) == IF SqrtLess(b, a) THEN b ELSE a

\* dot / (sqrt(a) * sqrt(b)): NaN for 0 / 0, an infinity for n / 0
NaN == [kind |-> "NaN", num |-> 0, denA |-> 0, denB |-> 0]
One == [kind |-> "fin", num |-> 1, denA |-> 1, denB |-> 1]
MinusOne == [kind |-> "fin", num |-> -1, denA |-> 1, denB |-> 1]

Quotient(dot, a, b) ==
    IF a = 0 \/ b = 0
    THEN IF dot = 0 THEN NaN
         ELSE [kind |-> "Inf", num |-> Sign(dot), denA |-> 0, denB |-> 0]
    ELSE [kind |-> "fin", num |-> dot, denA |-> a, denB |-> b]

\* c1 < c2 for finite quotients
QLess(c1, c2) ==
    LET s1 == Sign(c1.num)
        s2 == Sign(c2.num)
        l == Prod4(Abs(c1.num), Abs(c1.num), c2.denA, c2.denB)
        r == Prod4(Abs(c2.num), Abs(c2.num), c1.denA, c1.denB)
    IN IF s1 # s2 THEN s1 < s2
       ELSE IF s1 = 0 THEN FALSE
       ELSE IF s1 > 0 THEN BigCmp(l, r) < 0
       ELSE BigCmp(l, r) > 0

QEq(c1, c2) == ~QLess(c1, c2) /\ ~QLess(c2, c1)

\* Math.min(1, c) and Math.max(-1, c): NaN stays NaN
MathMinOne(c) ==
    CASE c.kind = "NaN" -> NaN
      [] c.kind = "Inf" -> IF c.num > 0 THEN One ELSE c
      [] OTHER -> IF QLess(One, c) THEN One ELSE c

MathMaxMinusOne(c) ==
    CASE c.kind = "NaN" -> NaN
      [] c.kind = "Inf" -> IF c.num < 0 THEN MinusOne ELSE c
      [] OTHER -> IF QLess(c, MinusOne) THEN MinusOne ELSE c

\* Math.acos(c) * (180 / Math.PI): the angle in degrees whose cosine is c
Degrees(c) == IF c.kind = "NaN" THEN [kind |-> "NaN", cos |-> NaN]
              ELSE [kind |-> "deg", cos |-> c]

IsNaN(angle) == angle.kind = "NaN"
\* acos is strictly decreasing: a smaller angle has the larger cosine
AngleLess(a, b) == QLess(b.cos, a.cos)
Is180(angle) == angle.kind = "deg" /\ QEq(angle.cos, MinusOne)
Is0(angle) == angle.kind = "deg" /\ QEq(angle.cos, One)
InRange(angle) == /\ angle.kind = "deg"
                  /\ angle.cos.kind = "fin"
                  /\ ~QLess(angle.cos, MinusOne)
                  /\ ~QLess(One, angle.cos)

\* ---------------------------------------------------------------- state
VARIABLES
    calculation,   \* useState<CalculationResult | null>: the stored result
    rect,          \* svgRef.current?.getBoundingClientRect(), or NoRect
    lastClick,     \* history: the last click that passed the handler's guard
    ignored,       \* history: the most recent click returned at the guard
    handled,       \* history: how many clicks stored a result, up to MaxClicks
    probe          \* the last application of calculateAngleWidth on its own

vars == <<calculation, rect, lastClick, ignored, handled, probe>>

Null == [null |-> TRUE]
NoRect == [present |-> FALSE, left |-> 0, top |-> 0]
NoClick == [clicked |-> FALSE]
NoProbe == [applied |-> FALSE]

Point(x, y) == [x |-> x, y |-> y]
ZeroPoint == Point(0, 0)

\* ------------------------------------------------------------ functions
\* relative / SCALE - offset, a screen length taken to pitch units
ToMetres(relative) == (relative * Unit) \div (SubPx * SCALE)

\* svgToPitch without its guard, reading an absent rect as the origin
svgToPitch_unguarded(svgX, svgY) ==
    Point(ToMetres(svgX - rect.left) - PitchWidthU \div 2,
          ToMetres(svgY - rect.top) - InGoalDepthU)

svgToPitch(svgX, svgY) ==
    IF ~rect.present
    THEN Point(0, 0)
    ELSE LET relativeX == svgX - rect.left
             relativeY == svgY - rect.top
             pitchX == ToMetres(relativeX) - PitchWidthU \div 2
             pitchY == ToMetres(relativeY) - InGoalDepthU
         IN Point(pitchX, pitchY)

calculateDistance(p1, p2) ==
    MathSqrt((p2.x - p1.x) * (p2.x - p1.x) + (p2.y - p1.y) * (p2.y - p1.y))

\* calculateAngleWidth with the posts a whole goal width from the centre
calculateAngleWidth_widePosts(point, goalY) ==
    LET leftPost == Point(-GoalPostWidthU, goalY)
        rightPost == Point(GoalPostWidthU, goalY)
        vectorLeft == Point(leftPost.x - point.x, leftPost.y - point.y)
        vectorRight == Point(rightPost.x - point.x, rightPost.y - point.y)
        dotProduct == vectorLeft.x * vectorRight.x + vectorLeft.y * vectorRight.y
        magnitudeLeft == MathSqrt(vectorLeft.x * vectorLeft.x + vectorLeft.y * vectorLeft.y)
        magnitudeRight == MathSqrt(vectorRight.x * vectorRight.x + vectorRight.y * vectorRight.y)
        cosAngle == Quotient(dotProduct, magnitudeLeft.radicand, magnitudeRight.radicand)
    IN Degrees(MathMaxMinusOne(MathMinOne(cosAngle)))

\* calculateAngleWidth with magnitudeRight taken from vectorLeft
calculateAngleWidth_sameMagnitude(point, goalY) ==
    LET leftPost == Point(-(GoalPostWidthU \div 2), goalY)
        rightPost == Point(GoalPostWidthU \div 2, goalY)
        vectorLeft == Point(leftPost.x - point.x, leftPost.y - point.y)
        vectorRight == Point(rightPost.x - point.x, rightPost.y - point.y)
        dotProduct == vectorLeft.x * vectorRight.x + vectorLeft.y * vectorRight.y
        magnitudeLeft == MathSqrt(vectorLeft.x * vectorLeft.x + vectorLeft.y * vectorLeft.y)
        magnitudeRight == MathSqrt(vectorLeft.x * vectorLeft.x + vectorLeft.y * vectorLeft.y)
        cosAngle == Quotient(dotProduct, magnitudeLeft.radicand, magnitudeRight.radicand)
    IN Degrees(MathMaxMinusOne(MathMinOne(cosAngle)))

calculateAngleWidth(point, goalY) ==
    LET leftPost == Point(-(GoalPostWidthU \div 2), goalY)
        rightPost == Point(GoalPostWidthU \div 2, goalY)
        vectorLeft == Point(leftPost.x - point.x, leftPost.y - point.y)
        vectorRight == Point(rightPost.x - point.x, rightPost.y - point.y)
        dotProduct == vectorLeft.x * vectorRight.x + vectorLeft.y * vectorRight.y
        magnitudeLeft == MathSqrt(vectorLeft.x * vectorLeft.x + vectorLeft.y * vectorLeft.y)
        magnitudeRight == MathSqrt(vectorRight.x * vectorRight.x + vectorRight.y * vectorRight.y)
        cosAngle == Quotient(dotProduct, magnitudeLeft.radicand, magnitudeRight.radicand)
    IN Degrees(MathMaxMinusOne(MathMinOne(cosAngle)))

topGoalY == PitchLengthU
bottomGoalY == 0

\* the pitch point without the shift of x to the centre line
pitchPointOf_uncentred(relativeX, relativeY) ==
    Point(ToMetres(relativeX), ToMetres(relativeY) - InGoalDepthU)

pitchPointOf(relativeX, relativeY) ==
    Point(ToMetres(relativeX) - PitchWidthU \div 2, ToMetres(relativeY) - InGoalDepthU)

\* the comparison of line 94 with <= for <
nearestGoalOf_orEqual(distanceToTop, distanceToBottom) ==
    IF ~SqrtLess(distanceToBottom, distanceToTop) THEN "top" ELSE "bottom"

\* the comparison of line 94 the other way round
nearestGoalOf_flipped(distanceToTop, distanceToBottom) ==
    IF SqrtLess(distanceToBottom, distanceToTop) THEN "top" ELSE "bottom"

nearestGoalOf(distanceToTop, distanceToBottom) ==
    IF SqrtLess(distanceToTop, distanceToBottom) THEN "top" ELSE "bottom"

nearestGoalYOf(nearestGoal) == IF nearestGoal = "top" THEN topGoalY ELSE bottomGoalY

\* the value handlePitchClick hands to setCalculation, given the rect it read
handlePitchClickResult(clientX, clientY, r) ==
    LET relativeX == clientX - r.left
        relativeY == clientY - r.top
        pitchPoint == pitchPointOf(relativeX, relativeY)
        distanceToTop == calculateDistance(pitchPoint, Point(0, topGoalY))
        distanceToBottom == calculateDistance(pitchPoint, Point(0, bottomGoalY))
        nearestGoal == nearestGoalOf(distanceToTop, distanceToBottom)
        nearestGoalY == nearestGoalYOf(nearestGoal)
        distanceToNearestGoal == MathMin(distanceToTop, distanceToBottom)
        angleWidth == calculateAngleWidth(pitchPoint, nearestGoalY)
    IN [distanceToNearestGoal |-> distanceToNearestGoal,
        angleWidth |-> angleWidth,
        selectedPoint |-> pitchPoint,
        nearestGoal |-> nearestGoal]

\* pitchToSvg with the in-goal depth left out of y
pitchToSvg_noInGoal(pitchPoint) ==
    Point(((pitchPoint.x + PitchWidthU \div 2) * SCALE * SubPx) \div Unit,
          (pitchPoint.y * SCALE * SubPx) \div Unit)

pitchToSvg(pitchPoint) ==
    Point(((pitchPoint.x + PitchWidthU \div 2) * SCALE * SubPx) \div Unit,
          ((pitchPoint.y + InGoalDepthU) * SCALE * SubPx) \div Unit)

\* --------------------------------------------------------------- inputs
\* screen coordinates, in fifths of a pixel
CentreX == (svgWidth * SubPx) \div 2
NearLineY == IN_GOAL_DEPTH * SCALE * SubPx
ClientXs == {CentreX + i * (GoalPostWidthU \div 2) : i \in -MaxI..MaxI}
ClientYs == {NearLineY + j * (PitchLengthU \div 4) : j \in 0..MaxJ}
               \cup {NearLineY + k * SubPx : k \in -MaxK..MaxK}
Rects == {[present |-> TRUE, left |-> o, top |-> o] : o \in 0..MaxOff}

\* the pitch points those clicks select
PitchXs == {pitchPointOf(cx - l, 0).x : cx \in ClientXs, l \in 0..MaxOff}
PitchYs == {pitchPointOf(0, cy - t).y : cy \in ClientYs, t \in 0..MaxOff}

\* -------------------------------------------------------------- actions
Init ==
    /\ calculation = Null
    /\ rect = NoRect
    /\ lastClick = NoClick
    /\ ignored = FALSE
    /\ handled = 0
    /\ probe = NoProbe

\* the svg is laid out (mounted, scrolled, resized): the ref reports a rect
Layout(r) ==
    /\ rect' = r
    /\ UNCHANGED <<calculation, lastClick, ignored, handled, probe>>

\* the svg is unmounted: svgRef.current is null again
Unmount ==
    /\ rect.present
    /\ rect' = NoRect
    /\ UNCHANGED <<calculation, lastClick, ignored, handled, probe>>

\* a handler that keeps the shorter of the stored and the new distance
HandlePitchClick_keepsBest(clientX, clientY) ==
    IF ~rect.present
    THEN /\ ignored' = TRUE
         /\ UNCHANGED <<calculation, rect, lastClick, handled, probe>>
    ELSE /\ calculation' =
               LET new == handlePitchClickResult(clientX, clientY, rect)
               IN IF calculation = Null THEN new
                  ELSE [new EXCEPT !.distanceToNearestGoal =
                            MathMin(@, calculation.distanceToNearestGoal)]
         /\ lastClick' = [clicked |-> TRUE, clientX |-> clientX, clientY |-> clientY,
                          left |-> rect.left, top |-> rect.top]
         /\ ignored' = FALSE
         /\ handled' = IF handled < MaxClicks THEN handled + 1 ELSE handled
         /\ UNCHANGED <<rect, probe>>

\* a handler that clears the stored result when there is no rect
HandlePitchClick_clears(clientX, clientY) ==
    IF ~rect.present
    THEN /\ ignored' = TRUE
         /\ calculation' = Null
         /\ UNCHANGED <<rect, lastClick, handled, probe>>
    ELSE /\ calculation' = handlePitchClickResult(clientX, clientY, rect)
         /\ lastClick' = [clicked |-> TRUE, clientX |-> clientX, clientY |-> clientY,
                          left |-> rect.left, top |-> rect.top]
         /\ ignored' = FALSE
         /\ handled' = IF handled < MaxClicks THEN handled + 1 ELSE handled
         /\ UNCHANGED <<rect, probe>>

HandlePitchClick(clientX, clientY) ==
    IF ~rect.present
    THEN /\ ignored' = TRUE
         /\ UNCHANGED <<calculation, rect, lastClick, handled, probe>>
    ELSE /\ calculation' = handlePitchClickResult(clientX, clientY, rect)
         /\ lastClick' = [clicked |-> TRUE, clientX |-> clientX, clientY |-> clientY,
                          left |-> rect.left, top |-> rect.top]
         /\ ignored' = FALSE
         /\ handled' = IF handled < MaxClicks THEN handled + 1 ELSE handled
         /\ UNCHANGED <<rect, probe>>

Next ==
    \/ \E r \in Rects : Layout(r)
    \/ Unmount
    \/ \E clientX \in ClientXs, clientY \in ClientYs : HandlePitchClick(clientX, clientY)

Spec == Init /\ [][Next]_vars

\* calculateAngleWidth applied to a point and a goal line of the caller's choice
InitAngle ==
    /\ calculation = Null
    /\ rect = NoRect
    /\ lastClick = NoClick
    /\ ignored = FALSE
    /\ handled = 0
    /\ probe \in {[applied |-> FALSE, point |-> Point(x, y), goalY |-> goalY] :
                     x \in PitchXs, y \in PitchYs, goalY \in {topGoalY, bottomGoalY}}

ApplyAngleWidth ==
    /\ ~probe.applied
    /\ probe' = [applied |-> TRUE, point |-> probe.point, goalY |-> probe.goalY,
                 angleWidth |-> calculateAngleWidth(probe.point, probe.goalY)]
    /\ UNCHANGED <<calculation, rect, lastClick, ignored, handled>>

NextAngle == ApplyAngleWidth

SpecAngle == InitAngle /\ [][NextAngle]_vars

\* --------------------------------------------------------------- claims
GoalPostHalfU == GoalPostWidthU \div 2
Stored == calculation # Null
GoalMid(nearestGoal) == Point(0, nearestGoalYOf(nearestGoal))
OnHalfway(p) == 2 * p.y = PitchLengthU
AtPost(p, goalY) == p.y = goalY /\ Abs(p.x) = GoalPostHalfU

\* C1 (as amended): a stored point on the halfway line (y = length / 2, any
\* x) is reported with the goal at pitch-y = 0 ("bottom"), and its angle is
\* the one computed against goalY = 0.
C1_TieSelectsGoalAtZero ==
    (Stored /\ OnHalfway(calculation.selectedPoint)) =>
        /\ calculation.nearestGoal = "bottom"
        /\ nearestGoalYOf(calculation.nearestGoal) = 0
        /\ calculation.angleWidth = calculateAngleWidth(calculation.selectedPoint, 0)

\* C1 (as stated): a stored point on the halfway line is reported with the
\* Far goal, the one at pitch-y = length ("top"), and its angle is the one
\* computed against goalY = length.
C1_TieSelectsFarGoal ==
    (Stored /\ OnHalfway(calculation.selectedPoint)) =>
        /\ calculation.nearestGoal = "top"
        /\ nearestGoalYOf(calculation.nearestGoal) = PitchLengthU
        /\ calculation.angleWidth =
               calculateAngleWidth(calculation.selectedPoint, PitchLengthU)

C1_Witness ==
    Stored /\ OnHalfway(calculation.selectedPoint) /\ calculation.selectedPoint.x # 0

\* C2: the stored distance is the minimum of the distances to (0, 0) and
\* (0, length); it is the distance to the midpoint of the reported goal,
\* against which the angle is computed; and when the two distances differ
\* the reported goal is the strictly closer one.
C2_DistanceIsMinimum ==
    Stored =>
        LET p == calculation.selectedPoint
            toFar == calculateDistance(p, Point(0, PitchLengthU))
            toNear == calculateDistance(p, Point(0, 0))
            d == calculation.distanceToNearestGoal
            mid == GoalMid(calculation.nearestGoal)
            other == IF calculation.nearestGoal = "top" THEN Point(0, 0)
                     ELSE Point(0, PitchLengthU)
        IN /\ d \in {toFar, toNear}
           /\ ~SqrtLess(toFar, d)
           /\ ~SqrtLess(toNear, d)
           /\ d = calculateDistance(p, mid)
           /\ calculation.angleWidth = calculateAngleWidth(p, mid.y)
           /\ (toFar # toNear => SqrtLess(calculateDistance(p, mid),
                                          calculateDistance(p, other)))

C2_Witness ==
    /\ Stored
    /\ calculation.nearestGoal = "top"
    /\ calculation.distanceToNearestGoal.radicand > 0
    /\ calculation.selectedPoint.x # 0

\* C3: the angle width stored by a click is always a defined number; a click
\* on a post of the selected goal does not put an undefined angle in the
\* stored result.
C3_AngleAlwaysDefined ==
    Stored => ~IsNaN(calculation.angleWidth)

\* C4: for a point that is not on a post of the goal line goalY (0 or
\* length), calculateAngleWidth lies in [0, 180] degrees; it is 180 only on
\* the goal line strictly between the posts and 0 only on the goal line
\* outside the posts.
C4_AngleInRange ==
    (probe.applied /\ ~AtPost(probe.point, probe.goalY)) =>
        /\ InRange(probe.angleWidth)
        /\ Is180(probe.angleWidth) =>
               (probe.point.y = probe.goalY /\ Abs(probe.point.x) < GoalPostHalfU)
        /\ Is0(probe.angleWidth) =>
               (probe.point.y = probe.goalY /\ Abs(probe.point.x) > GoalPostHalfU)

C4_Witness ==
    /\ probe.applied
    /\ probe.goalY = PitchLengthU
    /\ Is0(probe.angleWidth)

\* C5: a click at screen (sx, sy) with the rect at (left, top) stores the
\* pitch point ((sx - left) / 4 - 35, (sy - top) / 4 - 10); with the rect at
\* (0, 0), the click at pixel (140, 40) stores the point (0, 0), the goal at
\* pitch-y = 0, distance 0 and an angle of 180 degrees.
C5_ClickOnNearGoalMidpoint ==
    lastClick.clicked =>
        /\ (calculation.selectedPoint.x + 35 * Unit) * 4 * SubPx
               = (lastClick.clientX - lastClick.left) * Unit
        /\ (calculation.selectedPoint.y + 10 * Unit) * 4 * SubPx
               = (lastClick.clientY - lastClick.top) * Unit
        /\ (/\ lastClick.clientX = 140 * SubPx
            /\ lastClick.clientY = 40 * SubPx
            /\ lastClick.left = 0
            /\ lastClick.top = 0) =>
               /\ calculation.selectedPoint = Point(0, 0)
               /\ calculation.nearestGoal = "bottom"
               /\ nearestGoalYOf(calculation.nearestGoal) = 0
               /\ calculation.distanceToNearestGoal = MathSqrt(0)
               /\ Is180(calculation.angleWidth)

C5_Witness ==
    /\ lastClick.clicked
    /\ lastClick.clientX = 140 * SubPx
    /\ lastClick.clientY = 40 * SubPx
    /\ lastClick.left = 0
    /\ lastClick.top = 0

\* C6: pitchToSvg applied to the stored selectedPoint gives back the click's
\* position relative to the rect, (clientX - left, clientY - top).
C6_RoundTrip ==
    lastClick.clicked =>
        pitchToSvg(calculation.selectedPoint)
            = Point(lastClick.clientX - lastClick.left, lastClick.clientY - lastClick.top)

C6_Witness ==
    /\ lastClick.clicked
    /\ lastClick.left > 0
    /\ calculation.selectedPoint.x < 0
    /\ calculation.selectedPoint.y < 0

\* C7: for x strictly between the posts and a goal line goalY, the angle at
\* perpendicular distance d from the line is strictly greater than the
\* angle at every larger distance, and is below 180 degrees when d > 0.
C7_AngleDecreasesWithDistance ==
    (probe.applied /\ Abs(probe.point.x) < GoalPostHalfU) =>
        LET d == Abs(probe.point.y - probe.goalY)
        IN /\ d > 0 => (InRange(probe.angleWidth) /\ ~Is180(probe.angleWidth))
           /\ \A y2 \in PitchYs :
                  Abs(y2 - probe.goalY) > d =>
                      AngleLess(calculateAngleWidth(Point(probe.point.x, y2), probe.goalY),
                                probe.angleWidth)

C7_Witness ==
    /\ probe.applied
    /\ Abs(probe.point.x) < GoalPostHalfU
    /\ probe.point.x # 0
    /\ Abs(probe.point.y - probe.goalY) > 0
    /\ \E y2 \in PitchYs : Abs(y2 - probe.goalY) > Abs(probe.point.y - probe.goalY)

\* C8: after any number of clicks handled with a rect, the stored
\* calculation is the result of the last of them alone: each of its four
\* fields is the value computed from that click's coordinates and rect,
\* whatever was stored before, and it has no other field.
C8_LastClickOnly ==
    lastClick.clicked =>
        /\ DOMAIN calculation
               = {"distanceToNearestGoal", "angleWidth", "selectedPoint", "nearestGoal"}
        /\ calculation = handlePitchClickResult(lastClick.clientX, lastClick.clientY,
                             [present |-> TRUE, left |-> lastClick.left,
                              top |-> lastClick.top])

C8_Witness ==
    /\ lastClick.clicked
    /\ handled >= 2
    /\ calculation.distanceToNearestGoal.radicand > 0
    /\ calculation.nearestGoal = "bottom"

\* C9 (as amended): while there is no bounding rect, svgToPitch returns the
\* zero point (0, 0) for every screen coordinate, and a click handled then
\* stores nothing: with no earlier handled click the calculation is null.
C9_NoRectStoresNothing ==
    /\ ~rect.present =>
           \A svgX \in ClientXs, svgY \in ClientYs : svgToPitch(svgX, svgY) = ZeroPoint
    /\ (ignored /\ ~lastClick.clicked) => calculation = Null

\* C9 (as stated): a click handled while there is no bounding rect produces
\* a result whose selected point is the zero point (0, 0).
C9_NoRectStoresZeroPoint ==
    ignored => (Stored /\ calculation.selectedPoint = ZeroPoint)

C9_Witness ==
    ignored /\ ~rect.present /\ calculation = Null

\* C10: a step taken while there is no bounding rect, a click included,
\* leaves the stored calculation as it is, and a stored calculation never
\* becomes null again.
C10_IgnoredClickKeepsResult ==
    [][/\ ~rect.present => calculation' = calculation
       /\ Stored => calculation' # Null]_vars

C10_Witness ==
    ignored /\ Stored

=============================================================================
